---- MODULE Spec2Model ----
(***************************************************************************)
(* Model of scroll_strategist's probability-maximising search              *)
(* (src/src/dfs.rs: solve_p, dfs_p) over the strategy tree of              *)
(* src/src/graph.rs and the stat vectors of src/src/stats.rs.              *)
(*                                                                         *)
(* The recursion of dfs_p is unfolded into an explicit call stack: one     *)
(* frame per active call of dfs_p, one action per block of its body.       *)
(*                                                                         *)
(* f64 values (probabilities and costs) are modelled as exact fixed-point  *)
(* numbers with denominator One: the integer n stands for n / One.  Every  *)
(* probability of the scroll pool is a multiple of 1/2, a dark scroll      *)
(* halves once more, so a value computed at a node with s slots is a       *)
(* multiple of 1 / 4^s and One == 4^MaxSlots keeps every product exact,    *)
(* as the binary floating point of the program does for these inputs.      *)
(*                                                                         *)
(* Rc<ScrollUse> handles are modelled as identifiers into "heap"; two      *)
(* handles are the same shared object iff the identifiers are equal.       *)
(***************************************************************************)
EXTENDS Integers, Sequences, FiniteSets, TLC

\* ------------------------------------------------------------------ bounds
MaxSlots == 3
MaxCatalog == 2
MaxLen == 2
MaxStat == 2

\* ------------------------------------------------------------------- state
VARIABLES
  root,      \* the ItemState handed to solve_p
  scrolls,   \* the catalog
  goal,      \* the goal stat vector
  master,    \* the master scroll (NoMaster before solve_p started)
  cache,     \* CacheKey -> Rc<ScrollUse> (identifier)
  heap,      \* identifier -> ScrollUse
  next_id,   \* next identifier Rc::new hands out
  stack,     \* active calls of dfs_p, innermost last
  ret,       \* value returned by the call that returned last
  phase,     \* "start", "running", "done"
  prev,      \* what the previous call of solve_p left in the root
  cmp        \* a call of Stats::partial_cmp / Stats::eq: operands and results

vars == <<root, scrolls, goal, master, cache, heap, next_id, stack, ret, phase, prev, cmp>>

\* ------------------------------------------------------- number modelling
U16Mod == 65536
One == 4 ^ MaxSlots
Half == One \div 2

FMul(a, b) == (a * b) \div One
FHalf(a) == a \div 2

\* ------------------------------------------------------------ stat vectors
Plus(s, t) ==
  [k \in 1..(IF Len(s) < Len(t) THEN Len(s) ELSE Len(t)) |-> (s[k] + t[k]) % U16Mod]

Mul(s, rhs) == [k \in 1..Len(s) |-> (s[k] * rhs) % U16Mod]

Cmp(a, b) == IF a < b THEN "Less" ELSE IF a = b THEN "Equal" ELSE "Greater"

RECURSIVE CmpFold(_, _, _, _)
CmpFold(s, t, k, part_ord) ==
  IF k > Len(s) THEN part_ord
  ELSE LET ord == Cmp(s[k], t[k]) IN
       CASE part_ord = "None" -> CmpFold(s, t, k + 1, ord)
         [] part_ord = "Less" ->
              IF ord = "Greater" THEN "None" ELSE CmpFold(s, t, k + 1, part_ord)
         [] part_ord = "Equal" ->
              CmpFold(s, t, k + 1, IF ord # "Equal" THEN ord ELSE part_ord)
         [] part_ord = "Greater" ->
              IF ord = "Less" THEN "None" ELSE CmpFold(s, t, k + 1, part_ord)

PartialCmp(s, t) ==
  IF Len(s) # Len(t) THEN "None" ELSE CmpFold(s, t, 1, "None")

\* Stats::eq compares the two Vec<u16>.
Eq(s, t) == s = t

Lt(s, t) == PartialCmp(s, t) = "Less"

Ge(s, t) == PartialCmp(s, t) \in {"Greater", "Equal"}

MaxInPlaceSum(self, other) ==
  [k \in 1..(IF Len(other) > Len(self) THEN Len(other) ELSE Len(self)) |->
     (IF k <= Len(self) THEN self[k] ELSE 0) + (IF k <= Len(other) THEN other[k] ELSE 0)]

MaxInPlace(self, other) ==
  LET padded == [k \in 1..(IF Len(other) > Len(self) THEN Len(other) ELSE Len(self)) |->
                   IF k <= Len(self) THEN self[k] ELSE 0]
  IN [k \in 1..Len(padded) |->
        IF k <= Len(other) /\ other[k] > padded[k] THEN other[k] ELSE padded[k]]

\* ----------------------------------------------------------------- scrolls
ScrollPool ==
  { [p_suc |-> One,  dark |-> TRUE,  cost |-> 2 * One, stats |-> <<0, 1>>],
    [p_suc |-> Half, dark |-> FALSE, cost |-> One,     stats |-> <<1, 1>>],
    [p_suc |-> Half, dark |-> TRUE,  cost |-> One,     stats |-> <<1, 0>>],
    [p_suc |-> 0,    dark |-> TRUE,  cost |-> 2 * One, stats |-> <<1, 0>>] }

Catalogs == UNION { [1..n -> ScrollPool] : n \in 1..MaxCatalog }

RECURSIVE MasterFold(_, _, _)
MasterFold(scrs, k, acc) ==
  IF k > Len(scrs) THEN acc
  ELSE MasterFold(scrs, k + 1, MaxInPlace(acc, scrs[k].stats))

\* The cost of the master scroll is +infinity and never read; -1 stands for it.
MasterScroll(scrs) ==
  [p_suc |-> One, dark |-> FALSE, cost |-> -1, stats |-> MasterFold(scrs, 1, <<>>)]

NoMaster == [p_suc |-> 0, dark |-> FALSE, cost |-> 0, stats |-> <<>>]

\* ------------------------------------------------------------ strategy tree
NoChild == 0

NewExists(slots, stats) ==
  [kind |-> "Exists", slots |-> slots, stats |-> stats, child |-> NoChild]

NewBoomed == [kind |-> "Boomed", slots |-> 0, stats |-> <<>>, child |-> NoChild]

\* ScrollUse.scroll is a reference into the catalog slice: the model keeps
\* the position i of the scroll, so scrolls[i] is the scroll referred to.
ScrollUseNewCertain(i) ==
  [scroll |-> i, p_goal |-> One, exp_cost |-> scrolls[i].cost, outcomes |-> <<>>]

ScrollUseNewFree(i) ==
  [scroll |-> i, p_goal |-> 0, exp_cost |-> 0, outcomes |-> <<>>]

ScrollUseNew(i) ==
  [scroll |-> i, p_goal |-> 0, exp_cost |-> scrolls[i].cost, outcomes |-> <<>>]

PushOutcomeFront(su, outcome) == [su EXCEPT !.outcomes = <<outcome>> \o @]

PushOutcome(su, outcome) == [su EXCEPT !.outcomes = Append(@, outcome)]

NoScrollUse == [scroll |-> 0, p_goal |-> 0, exp_cost |-> 0, outcomes |-> <<>>]

\* A child left in the root by an earlier use of the state, which solve_p is
\* documented to ignore and replace: it looks better than any real choice.
StaleId == 1

StaleScrollUse == [scroll |-> 1, p_goal |-> One, exp_cost |-> 0, outcomes |-> <<>>]

\* ------------------------------------------------------------------- cache
CacheKeySlotsOnly(slots, stats) == <<slots, <<>>>>

CacheKey(slots, stats) == <<slots, stats>>

CacheGetMiss(c, key) == NoChild

CacheGet(c, key) == IF key \in DOMAIN c THEN c[key] ELSE NoChild

CacheInsertNothing(c, key, id) == c

CacheInsert(c, key, id) == [k \in DOMAIN c \cup {key} |-> IF k = key THEN id ELSE c[k]]

Range(f) == { f[k] : k \in DOMAIN f }

\* Dropping an Rc handle frees the object unless the cache still holds it.
\* The outcomes of a freed ScrollUse only hold handles that the cache holds
\* too (they come from a cache hit or were inserted when their evaluation
\* finished), so nothing else is freed.
DropRc(h, c, id) ==
  IF id = NoChild \/ id \in Range(c) THEN h
  ELSE [k \in DOMAIN h \ {id} |-> h[k]]

\* ---------------------------------------------------------- dfs_p's pieces
PFailHalved(scroll) == FHalf(One - scroll.p_suc)

PFail(scroll) ==
  IF scroll.dark THEN FHalf(One - scroll.p_suc) ELSE One - scroll.p_suc

AccumulateUnweightedP(su, w, p, c) ==
  [su EXCEPT !.p_goal = @ + p, !.exp_cost = @ + FMul(w, c)]

AccumulateCostAgain(su, w, p, c) ==
  [su EXCEPT !.p_goal = @ + FMul(w, p),
             !.exp_cost = @ + FMul(w, c + scrolls[su.scroll].cost)]

Accumulate(su, w, p, c) ==
  [su EXCEPT !.p_goal = @ + FMul(w, p), !.exp_cost = @ + FMul(w, c)]

TerminalPStrict(stats, g) == IF PartialCmp(stats, g) = "Greater" THEN One ELSE 0

TerminalPNotLess(stats, g) == IF ~Lt(stats, g) THEN One ELSE 0

TerminalP(stats, g) == IF Ge(stats, g) THEN One ELSE 0

SucPrunedAt(stats, scroll, ms, slots_m1, g) ==
  Lt(Plus(Plus(stats, scroll.stats), Mul(ms.stats, slots_m1)), g)

FailPrunedAt(stats, ms, slots_m1, g) ==
  Lt(Plus(stats, Mul(ms.stats, slots_m1)), g)

BetterOnTie(u, b) ==
  \/ u.p_goal >= b.p_goal
  \/ (u.p_goal >= b.p_goal /\ u.exp_cost < b.exp_cost)

Better(u, b) ==
  \/ u.p_goal > b.p_goal
  \/ (u.p_goal >= b.p_goal /\ u.exp_cost < b.exp_cost)

NoRet == [set |-> FALSE, p |-> 0, cost |-> 0, of |-> NewBoomed]

\* No call of solve_p has finished yet.
NoPrev == [set |-> FALSE, root |-> NewBoomed, scroll |-> 0, p_goal |-> 0, exp_cost |-> 0]

\* No comparison of stat vectors is being followed.
NoCmp == [s |-> <<>>, t |-> <<>>, called |-> FALSE, ord |-> "None", eq |-> FALSE]

\* The stat vectors the root is seeded with, and the goals.
RootStats == { <<0, 0>>, <<0, 1>> }

Goals == { <<0, 0>>, <<0, 1>>, <<1, 0>>, <<2, 1>> }

Init ==
  /\ \E slots \in 0..MaxSlots, stats \in RootStats, stale \in BOOLEAN :
       /\ root = [NewExists(slots, stats) EXCEPT !.child = IF stale THEN StaleId ELSE NoChild]
       /\ heap = IF stale THEN (StaleId :> StaleScrollUse) ELSE << >>
  /\ scrolls \in Catalogs
  /\ goal \in Goals
  /\ master = NoMaster
  /\ cache = << >>
  /\ next_id = StaleId + 1
  /\ stack = << >>
  /\ ret = NoRet
  /\ phase = "start"
  /\ prev = NoPrev
  /\ cmp = NoCmp

Frame(st) == [st |-> st, pc |-> "entry", i |-> 0, su |-> NoScrollUse, cands |-> <<>>]

Top == stack[Len(stack)]

Running == phase = "running" /\ Len(stack) > 0

\* solve_p: build the master scroll and an empty cache, call dfs_p on root.
SolveP ==
  /\ phase = "start"
  /\ master' = MasterScroll(scrolls)
  /\ cache' = << >>
  /\ stack' = <<Frame(root)>>
  /\ phase' = "running"
  /\ UNCHANGED <<prev, cmp, root, scrolls, goal, heap, next_id, ret>>

\* The innermost call returns (p, c), leaving st in the place it was given.
Return(st, p, c) ==
  /\ ret' = [set |-> TRUE, p |-> p, cost |-> c, of |-> st]
  /\ IF Len(stack) = 1
     THEN /\ root' = st
          /\ stack' = << >>
          /\ phase' = "done"
     ELSE /\ stack' = [SubSeq(stack, 1, Len(stack) - 1) EXCEPT
                         ![Len(stack) - 1].su.outcomes[Len(stack[Len(stack) - 1].su.outcomes)] = st]
          /\ UNCHANGED <<root, phase>>

\* The caller pushes the outcome onto its scroll_use and calls dfs_p on it.
Call(outcome, retpc) ==
  stack' = Append([stack EXCEPT ![Len(stack)].su = PushOutcome(@, outcome),
                                ![Len(stack)].pc = retpc],
                  Frame(outcome))

\* Start of the iteration for scroll number i of the frame f (or loop exit).
Iteration(f, i) ==
  [f EXCEPT !.pc = "loop", !.i = i,
            !.su = IF i <= Len(scrolls) THEN ScrollUseNew(i) ELSE NoScrollUse]

SetTop(f) == stack' = [stack EXCEPT ![Len(stack)] = f]

\* dfs.rs:196
Boomed ==
  /\ Running /\ Top.pc = "entry" /\ Top.st.kind = "Boomed"
  /\ Return(Top.st, 0, 0)
  /\ UNCHANGED <<prev, cmp, scrolls, goal, master, cache, heap, next_id>>

\* dfs.rs:68-73
CacheHit ==
  /\ Running /\ Top.pc = "entry" /\ Top.st.kind = "Exists"
  /\ LET su == CacheGet(cache, CacheKey(Top.st.slots, Top.st.stats)) IN
       /\ su # NoChild
       /\ heap' = DropRc(heap, cache, Top.st.child)
       /\ Return([Top.st EXCEPT !.child = su], heap[su].p_goal, heap[su].exp_cost)
  /\ UNCHANGED <<prev, cmp, scrolls, goal, master, cache, next_id>>

\* dfs.rs:76-80
Terminal ==
  /\ Running /\ Top.pc = "entry" /\ Top.st.kind = "Exists"
  /\ CacheGet(cache, CacheKey(Top.st.slots, Top.st.stats)) = NoChild
  /\ Top.st.slots = 0
  /\ heap' = DropRc(heap, cache, Top.st.child)
  /\ Return([Top.st EXCEPT !.child = NoChild], TerminalP(Top.st.stats, goal), 0)
  /\ UNCHANGED <<prev, cmp, scrolls, goal, master, cache, next_id>>

EnterLoopKeepsChild ==
  /\ Running /\ Top.pc = "entry" /\ Top.st.kind = "Exists"
  /\ CacheGet(cache, CacheKey(Top.st.slots, Top.st.stats)) = NoChild
  /\ Top.st.slots # 0
  /\ SetTop(Iteration(Top, 1))
  /\ UNCHANGED <<prev, cmp, root, scrolls, goal, master, cache, heap, next_id, ret, phase>>

\* dfs.rs:76-84
EnterLoop ==
  /\ Running /\ Top.pc = "entry" /\ Top.st.kind = "Exists"
  /\ CacheGet(cache, CacheKey(Top.st.slots, Top.st.stats)) = NoChild
  /\ Top.st.slots # 0
  /\ heap' = DropRc(heap, cache, Top.st.child)
  /\ SetTop(Iteration([Top EXCEPT !.st.child = NoChild], 1))
  /\ UNCHANGED <<prev, cmp, root, scrolls, goal, master, cache, next_id, ret, phase>>

InLoop == Running /\ Top.pc = "loop" /\ Top.i <= Len(scrolls)

Cur == scrolls[Top.i]

SlotsKept == Top.st.slots

SlotsM1 == Top.st.slots - 1

\* dfs.rs:87-99
SucPruned ==
  /\ InLoop /\ Cur.p_suc > 0
  /\ SucPrunedAt(Top.st.stats, Cur, master, SlotsM1, goal)
  /\ SetTop(Iteration(Top, Top.i + 1))
  /\ UNCHANGED <<prev, cmp, root, scrolls, goal, master, cache, heap, next_id, ret, phase>>

\* dfs.rs:87-114
SucCall ==
  /\ InLoop /\ Cur.p_suc > 0
  /\ ~SucPrunedAt(Top.st.stats, Cur, master, SlotsM1, goal)
  /\ Call(NewExists(SlotsM1, Plus(Top.st.stats, Cur.stats)), "suc_ret")
  /\ ret' = NoRet
  /\ UNCHANGED <<prev, cmp, root, scrolls, goal, master, cache, heap, next_id, phase>>

\* dfs.rs:115-116
SucRet ==
  /\ Running /\ Top.pc = "suc_ret" /\ ret.set
  /\ SetTop([Top EXCEPT !.su = Accumulate(@, Cur.p_suc, ret.p, ret.cost),
                        !.pc = "fail"])
  /\ ret' = NoRet
  /\ UNCHANGED <<prev, cmp, root, scrolls, goal, master, cache, heap, next_id, phase>>

\* The failure-branch check is reached after the success branch, or at once
\* when the scroll cannot succeed.
AtFailCheck ==
  /\ Running
  /\ \/ Top.pc = "fail"
     \/ (InLoop /\ ~(Cur.p_suc > 0))

\* dfs.rs:121-126
FailPruned ==
  /\ AtFailCheck
  /\ FailPrunedAt(Top.st.stats, master, SlotsM1, goal)
  /\ SetTop(Iteration(Top, Top.i + 1))
  /\ UNCHANGED <<prev, cmp, root, scrolls, goal, master, cache, heap, next_id, ret, phase>>

\* dfs.rs:128-142
FailCall ==
  /\ AtFailCheck
  /\ ~FailPrunedAt(Top.st.stats, master, SlotsM1, goal)
  /\ Cur.p_suc < One
  /\ Call(NewExists(SlotsM1, Top.st.stats), "fail_ret")
  /\ ret' = NoRet
  /\ UNCHANGED <<prev, cmp, root, scrolls, goal, master, cache, heap, next_id, phase>>

\* dfs.rs:143-151
FailRet ==
  /\ Running /\ Top.pc = "fail_ret" /\ ret.set
  /\ SetTop([Top EXCEPT !.su = Accumulate(@, PFail(Cur), ret.p, ret.cost),
                        !.pc = IF Cur.dark THEN "boom" ELSE "compare"])
  /\ ret' = NoRet
  /\ UNCHANGED <<prev, cmp, root, scrolls, goal, master, cache, heap, next_id, phase>>

\* dfs.rs:151-163
BoomCall ==
  /\ Running /\ Top.pc = "boom"
  /\ Call(NewBoomed, "boom_ret")
  /\ ret' = NoRet
  /\ UNCHANGED <<prev, cmp, root, scrolls, goal, master, cache, heap, next_id, phase>>

\* dfs.rs:157-164
BoomRet ==
  /\ Running /\ Top.pc = "boom_ret" /\ ret.set
  /\ SetTop([Top EXCEPT !.pc = "compare"])
  /\ ret' = NoRet
  /\ UNCHANGED <<prev, cmp, root, scrolls, goal, master, cache, heap, next_id, phase>>

AtCompare ==
  /\ Running
  /\ \/ Top.pc = "compare"
     \/ /\ AtFailCheck
        /\ ~FailPrunedAt(Top.st.stats, master, SlotsM1, goal)
        /\ ~(Cur.p_suc < One)

\* dfs.rs:170-181
Compare ==
  /\ AtCompare
  /\ LET b == Top.st.child
         replace == b = NoChild \/ Better(Top.su, heap[b])
         cands == Append(Top.cands, [p_goal |-> Top.su.p_goal,
                                     exp_cost |-> Top.su.exp_cost,
                                     i |-> Top.i])
     IN IF replace
        THEN /\ heap' = (next_id :> Top.su) @@ DropRc(heap, cache, b)
             /\ next_id' = next_id + 1
             /\ SetTop(Iteration([Top EXCEPT !.st.child = next_id, !.cands = cands],
                                 Top.i + 1))
        ELSE /\ SetTop(Iteration([Top EXCEPT !.cands = cands], Top.i + 1))
             /\ UNCHANGED <<heap, next_id>>
  /\ UNCHANGED <<prev, cmp, root, scrolls, goal, master, cache, ret, phase>>

\* dfs.rs:183-195
Finalize ==
  /\ Running /\ Top.pc = "loop" /\ Top.i > Len(scrolls)
  /\ IF Top.st.child # NoChild
     THEN /\ cache' = CacheInsert(cache, CacheKey(Top.st.slots, Top.st.stats), Top.st.child)
          /\ Return(Top.st, heap[Top.st.child].p_goal, heap[Top.st.child].exp_cost)
     ELSE /\ Return(Top.st, 0, 0)
          /\ UNCHANGED cache
  /\ UNCHANGED <<prev, cmp, scrolls, goal, master, heap, next_id>>

Next ==
  \/ SolveP
  \/ Boomed
  \/ CacheHit
  \/ Terminal
  \/ EnterLoop
  \/ SucPruned
  \/ SucCall
  \/ SucRet
  \/ FailPruned
  \/ FailCall
  \/ FailRet
  \/ BoomCall
  \/ BoomRet
  \/ Compare
  \/ Finalize

Spec == Init /\ [][Next]_vars

\* =================================================================== claims
Done == phase = "done"

\* stats >= goal in the product order, stated componentwise.
GoalMet(stats) == \A k \in 1..Len(goal) : stats[k] >= goal[k]

AllFrames == { stack[k] : k \in 1..Len(stack) }

\* The frames whose loop over the catalog has started.
LoopFrames == { f \in AllFrames : f.pc # "entry" }

\* The item states of the strategy tree that hangs off st.
RECURSIVE StatesFrom(_)
StatesFrom(st) ==
  {st} \cup
  IF st.kind = "Exists" /\ st.child # NoChild
  THEN UNION { StatesFrom(heap[st.child].outcomes[k]) :
                 k \in 1..Len(heap[st.child].outcomes) }
  ELSE {}

RetainedStates == StatesFrom(root)

\* The nodes of the retained tree that hold a chosen scroll use.
RetainedChoices ==
  { n \in RetainedStates : n.kind = "Exists" /\ n.child # NoChild }

\* ----------------------------------------------------------------------- C1
\* The optimum without any pruning: at slots == 0 the value is 1 iff the goal
\* is met, otherwise the best scroll's p_suc * P(success) + p_fail * P(failure)
\* (a boom is worth 0).
RECURSIVE RefP(_, _)
RefUseP(slots, stats, sc) ==
  LET pf == IF sc.dark THEN (One - sc.p_suc) \div 2 ELSE One - sc.p_suc
      suc == [k \in 1..Len(stats) |-> stats[k] + sc.stats[k]]
  IN (sc.p_suc * RefP(slots - 1, suc) + pf * RefP(slots - 1, stats)) \div One

RefP(slots, stats) ==
  IF slots = 0 THEN (IF GoalMet(stats) THEN One ELSE 0)
  ELSE LET vals == { RefUseP(slots, stats, scrolls[k]) : k \in 1..Len(scrolls) }
       IN CHOOSE v \in vals : \A w \in vals : w <= v

RootP ==
  IF root.child # NoChild THEN heap[root.child].p_goal
  ELSE IF root.slots = 0 THEN ret.p ELSE 0

\* C1: the goal probability solve_p computes for the root equals the optimum
\* of the reference recursion that has no master-scroll pruning.
C1Claim == Done => RootP = RefP(root.slots, root.stats)

\* ----------------------------------------------------------------------- C2
\* c is at least as good as d: greater p_goal, or equal p_goal and smaller
\* exp_cost, or equal on both and not later in catalog order.
Precedes(c, d) ==
  \/ c.p_goal > d.p_goal
  \/ c.p_goal = d.p_goal /\ c.exp_cost < d.exp_cost
  \/ c.p_goal = d.p_goal /\ c.exp_cost = d.exp_cost /\ c.i <= d.i

CandsOf(f) == { f.cands[k] : k \in 1..Len(f.cands) }

\* C2: at every node whose loop has run, the retained child is the candidate
\* that reached the comparison with the greatest p_goal, the least exp_cost
\* among those, the earliest in catalog order among those; there is no child
\* iff no candidate reached the comparison.
C2Theorem ==
  \A f \in LoopFrames :
    IF f.cands = <<>> THEN f.st.child = NoChild
    ELSE /\ f.st.child # NoChild
         /\ \E c \in CandsOf(f) :
              /\ \A d \in CandsOf(f) : Precedes(c, d)
              /\ heap[f.st.child].scroll = c.i
              /\ heap[f.st.child].p_goal = c.p_goal
              /\ heap[f.st.child].exp_cost = c.exp_cost

\* A node whose loop is over, where a later candidate tied on p_goal with an
\* earlier one and replaced it by its lower exp_cost.
C2Witness ==
  \E f \in LoopFrames :
    /\ f.pc = "loop" /\ f.i > Len(scrolls)
    /\ \E a, b \in CandsOf(f) :
         /\ a.i < b.i
         /\ a.p_goal = b.p_goal /\ b.exp_cost < a.exp_cost
         /\ heap[f.st.child].scroll = b.i

\* ------------------------------------------------------------- C3 and C4
\* The branch probability of the outcome o of the scroll sc used at node n:
\* the boom probability for Boomed, p_fail for the state with n's stats,
\* p_suc for the state with the bonus added (no scroll of the pool has an
\* all-zero bonus, so the two differ).
BranchP(n, sc, o) ==
  IF o.kind = "Boomed" THEN (One - sc.p_suc) \div 2
  ELSE IF o.stats = n.stats
       THEN (IF sc.dark THEN (One - sc.p_suc) \div 2 ELSE One - sc.p_suc)
       ELSE sc.p_suc

\* The goal probability and the residual cost of an outcome state.
OutcomeP(o) ==
  IF o.kind = "Boomed" THEN 0
  ELSE IF o.child # NoChild THEN heap[o.child].p_goal
  ELSE IF o.slots = 0 /\ GoalMet(o.stats) THEN One
  ELSE 0

OutcomeCost(o) ==
  IF o.kind = "Exists" /\ o.child # NoChild THEN heap[o.child].exp_cost ELSE 0

RECURSIVE WeightedP(_, _)
WeightedP(n, k) ==
  IF k = 0 THEN 0
  ELSE LET su == heap[n.child] IN
       WeightedP(n, k - 1)
         + BranchP(n, scrolls[su.scroll], su.outcomes[k]) * OutcomeP(su.outcomes[k])

RECURSIVE WeightedCost(_, _)
WeightedCost(n, k) ==
  IF k = 0 THEN 0
  ELSE LET su == heap[n.child] IN
       WeightedCost(n, k - 1)
         + BranchP(n, scrolls[su.scroll], su.outcomes[k]) * OutcomeCost(su.outcomes[k])

\* C3: after solve_p, at every node of the retained tree with a child,
\* child.p_goal is the sum over the outcomes of branch probability times the
\* outcome's goal probability (both sides scaled by One).
C3Theorem ==
  Done =>
    \A n \in RetainedChoices :
      One * heap[n.child].p_goal = WeightedP(n, Len(heap[n.child].outcomes))

\* A finished run whose root uses a scroll with all three outcomes, reaches the
\* goal with a probability strictly between 0 and 1, and has an outcome that
\* itself holds a chosen scroll use.
C3Witness ==
  /\ Done /\ root.child # NoChild
  /\ Len(heap[root.child].outcomes) = 3
  /\ heap[root.child].p_goal > 0 /\ heap[root.child].p_goal < One
  /\ \E k \in 1..3 :
       /\ heap[root.child].outcomes[k].child # NoChild
       /\ OutcomeP(heap[root.child].outcomes[k]) > 0

\* C4: after solve_p, at every node of the retained tree with a child,
\* child.exp_cost is child.scroll.cost, once, plus the sum over the outcomes of
\* branch probability times the outcome's residual cost (scaled by One).
C4Theorem ==
  Done =>
    \A n \in RetainedChoices :
      One * heap[n.child].exp_cost =
        One * scrolls[heap[n.child].scroll].cost
          + WeightedCost(n, Len(heap[n.child].outcomes))

\* A finished run whose root choice has an outcome with a residual cost of its
\* own and an outcome without one.
C4Witness ==
  /\ Done /\ root.child # NoChild
  /\ \E j, k \in 1..Len(heap[root.child].outcomes) :
       /\ OutcomeCost(heap[root.child].outcomes[j]) > 0
       /\ OutcomeCost(heap[root.child].outcomes[k]) = 0
       /\ heap[root.child].outcomes[j].slots > 0

\* ----------------------------------------------------------------------- C5
\* The scroll uses dfs_p made: everything on the heap but the stale child the
\* caller may have left in the root.
MadeIds == DOMAIN heap \ {StaleId}

\* C5: every ScrollUse retained as a child or stored in the cache has
\* 0 <= p_goal <= 1, and every p that dfs_p returns lies in [0, 1].
C5Theorem ==
  /\ \A id \in MadeIds : heap[id].p_goal >= 0 /\ heap[id].p_goal <= One
  /\ Range(cache) \subseteq MadeIds
  /\ \A f \in LoopFrames : f.st.child # NoChild => f.st.child \in MadeIds
  /\ ret.set => (ret.p >= 0 /\ ret.p <= One)

\* A call returned a probability strictly inside (0, 1) while the cache holds
\* a scroll use that reaches the goal for certain.
C5Witness ==
  /\ ret.set /\ ret.p > 0 /\ ret.p < One
  /\ \E id \in Range(cache) : heap[id].p_goal = One

\* ----------------------------------------------------------------------- C6
\* C6: every retained child has exp_cost >= scroll.cost, at every node of the
\* strategy tree (the costs of the pool are finite and not negative).
C6Theorem ==
  Done =>
    \A n \in RetainedChoices :
      heap[n.child].exp_cost >= scrolls[heap[n.child].scroll].cost

\* A finished run with a retained child that costs exactly its scroll, below a
\* root whose child costs more than its scroll.
C6Witness ==
  /\ Done /\ root.child # NoChild
  /\ heap[root.child].exp_cost > scrolls[heap[root.child].scroll].cost
  /\ \E n \in RetainedChoices :
       heap[n.child].exp_cost = scrolls[heap[n.child].scroll].cost

\* ----------------------------------------------------------------------- C7
\* C7: after solve_p, any two Exists states of the retained tree with the same
\* (slots, stats) hold the same child: both None, or both the very object the
\* cache stores under that key.
C7Theorem ==
  Done =>
    \A a, b \in RetainedStates :
      (a.kind = "Exists" /\ b.kind = "Exists"
         /\ a.slots = b.slots /\ a.stats = b.stats) =>
        /\ a.child = b.child
        /\ a.child # NoChild =>
             /\ <<a.slots, a.stats>> \in DOMAIN cache
             /\ cache[<<a.slots, a.stats>>] = a.child

\* A finished run where two different outcomes of the root's choice lead, each
\* through its own choice, to states with the same (slots, stats), both
\* holding one shared ScrollUse.
C7Witness ==
  /\ Done /\ root.child # NoChild
  /\ \E j, k \in 1..Len(heap[root.child].outcomes) :
       LET oj == heap[root.child].outcomes[j]
           ok == heap[root.child].outcomes[k]
       IN /\ j # k
          /\ oj.child # NoChild /\ ok.child # NoChild
          /\ \E x \in 1..Len(heap[oj.child].outcomes),
                y \in 1..Len(heap[ok.child].outcomes) :
               LET sx == heap[oj.child].outcomes[x]
                   sy == heap[ok.child].outcomes[y]
               IN /\ sx.kind = "Exists" /\ sy.kind = "Exists"
                  /\ sx.slots = sy.slots /\ sx.stats = sy.stats
                  /\ sx.child # NoChild /\ sx.child = sy.child

\* ----------------------------------------------------------------------- C8
\* dfs_p is entered on an Exists state without slots.
EntersTerminal ==
  /\ Running /\ Top.pc = "entry"
  /\ Top.st.kind = "Exists" /\ Top.st.slots = 0

\* C8: a call of dfs_p on an Exists state with slots == 0 leaves child None,
\* inserts nothing into the cache and returns (1, 0) if stats >= goal
\* componentwise, (0, 0) otherwise, whatever child the state held before.
C8Theorem ==
  [][EntersTerminal =>
       /\ ret'.set
       /\ ret'.of = [Top.st EXCEPT !.child = NoChild]
       /\ cache' = cache
       /\ ret'.p = (IF GoalMet(Top.st.stats) THEN One ELSE 0)
       /\ ret'.cost = 0]_vars

\* A call on a state without slots returned 1 while the cache was not empty.
C8Witness ==
  /\ ret.set /\ ret.of.kind = "Exists" /\ ret.of.slots = 0
  /\ ret.p = One /\ ret.of.child = NoChild
  /\ cache # << >>

\* ----------------------------------------------------------------------- C9
\* The root's call has tried every scroll and is about to return.
RootLoopOver ==
  /\ Len(stack) = 1 /\ Top.pc = "loop" /\ Top.i > Len(scrolls)

\* A scroll that cannot boom: not dark, or certain to succeed.
BoomFree(sc) == ~sc.dark \/ sc.p_suc = One

\* C9 as claimed: with goal <= stats at a root with slots > 0, solve_p leaves
\* root.child.p_goal == 1 for every catalog.
C9Claim ==
  (Done /\ root.slots > 0 /\ GoalMet(root.stats)) =>
    (root.child # NoChild /\ heap[root.child].p_goal = One)

\* C9 as amended: with goal <= stats at a root with slots > 0 every scroll
\* reaches the comparison, every scroll that cannot boom gives p_goal == 1,
\* and if the catalog holds such a scroll the root's child has p_goal == 1 and
\* the least exp_cost among the candidates with p_goal == 1.
C9Theorem ==
  /\ (RootLoopOver /\ GoalMet(Top.st.stats)) =>
       /\ Len(Top.cands) = Len(scrolls)
       /\ \A c \in CandsOf(Top) : BoomFree(scrolls[c.i]) => c.p_goal = One
       /\ (\E k \in 1..Len(scrolls) : BoomFree(scrolls[k])) =>
            /\ Top.st.child # NoChild
            /\ heap[Top.st.child].p_goal = One
            /\ \A c \in CandsOf(Top) :
                 c.p_goal = One => heap[Top.st.child].exp_cost <= c.exp_cost
  /\ (Done /\ root.slots > 0 /\ GoalMet(root.stats)
        /\ \E k \in 1..Len(scrolls) : BoomFree(scrolls[k])) =>
       (root.child # NoChild /\ heap[root.child].p_goal = One)

\* The root met the goal from the start, two scrolls that cannot boom both
\* gave p_goal == 1 and the cheaper, later one was kept.
C9Witness ==
  /\ RootLoopOver /\ GoalMet(Top.st.stats) /\ Top.st.slots > 1
  /\ \E a, b \in CandsOf(Top) :
       /\ a.i < b.i /\ a.p_goal = One /\ b.p_goal = One
       /\ b.exp_cost < a.exp_cost
       /\ heap[Top.st.child].scroll = b.i

\* ---------------------------------------------------------------------- C10
NoScrollSucceeds == \A k \in 1..Len(scrolls) : scrolls[k].p_suc = 0

\* A call on an Exists state with slots > 0 has just returned.
ReturnedNonTerminal ==
  ret.set /\ ret.of.kind = "Exists" /\ ret.of.slots > 0

ReturnedZero ==
  /\ ret.p = 0
  /\ ret.of.child # NoChild => heap[ret.of.child].p_goal = 0

\* C10 as claimed: if every scroll has p_suc == 0, every Exists node with
\* slots > 0 that is evaluated has goal probability 0, for every root and goal.
C10Claim == (NoScrollSucceeds /\ ReturnedNonTerminal) => ReturnedZero

\* C10 as amended: the same, for every root whose stats do not already meet
\* the goal.
C10Theorem ==
  (NoScrollSucceeds /\ ~GoalMet(root.stats) /\ ReturnedNonTerminal) => ReturnedZero

\* No scroll can succeed, the root does not meet the goal, and a call on a
\* state with slots kept a choice (of goal probability 0).
C10Witness ==
  /\ NoScrollSucceeds /\ ~GoalMet(root.stats) /\ ReturnedNonTerminal
  /\ ret.of.child # NoChild /\ ret.p = 0

\* ---------------------------------------------------------------------- C11
\* The positions of the catalog's scrolls that are certain to succeed.
CertainScrolls == { k \in 1..Len(scrolls) : scrolls[k].p_suc = One }

\* The one scroll with p_suc == 1 meets the goal alone from the root's stats.
OneCertainMeetsGoal ==
  /\ Cardinality(CertainScrolls) = 1
  /\ root.slots >= 1
  /\ \A k \in CertainScrolls :
       \A j \in 1..Len(goal) : root.stats[j] + scrolls[k].stats[j] >= goal[j]

\* C11: whenever the catalog holds exactly one scroll with p_suc == 1, the root
\* has slots >= 1 and root.stats plus that scroll's stats is >= goal
\* componentwise, solve_p sets root.child.scroll to that scroll.
C11Claim ==
  (Done /\ OneCertainMeetsGoal) =>
    /\ root.child # NoChild
    /\ heap[root.child].scroll \in CertainScrolls

\* ---------------------------------------------------------------------- C12
\* The ScrollUse objects the strategy tree below st holds a handle to.
IdsFrom(st) ==
  { n.child : n \in { m \in StatesFrom(st) : m.kind = "Exists" /\ m.child # NoChild } }

\* What a finished call of solve_p left in the root.
Snapshot ==
  [set |-> TRUE, root |-> root,
   scroll |-> IF root.child # NoChild THEN heap[root.child].scroll ELSE 0,
   p_goal |-> IF root.child # NoChild THEN heap[root.child].p_goal ELSE 0,
   exp_cost |-> IF root.child # NoChild THEN heap[root.child].exp_cost ELSE 0]

\* solve_p is called a second time on the state the first call left, with the
\* same scrolls and goal.  The cache of the first call was dropped when it
\* returned, which freed the objects only the cache held.
SolvePAgain ==
  /\ phase = "done" /\ ~prev.set
  /\ prev' = Snapshot
  /\ master' = MasterScroll(scrolls)
  /\ cache' = << >>
  /\ heap' = [id \in IdsFrom(root) |-> heap[id]]
  /\ stack' = <<Frame(root)>>
  /\ ret' = NoRet
  /\ phase' = "running"
  /\ UNCHANGED <<cmp, root, scrolls, goal, next_id>>

NextTwice ==
  \/ Next
  \/ SolvePAgain

SpecTwice == Init /\ [][NextTwice]_vars

\* C12: a second call of solve_p on the same state, scrolls and goal leaves
\* the same chosen scroll, p_goal and exp_cost as the first; each call
\* replaces whatever child the root held before (the result is a newly made
\* object or None) and leaves the root's slots and stats as they were.
C12Theorem ==
  /\ Done => (root.child = NoChild \/ root.child \in MadeIds)
  /\ (Done /\ prev.set) =>
       /\ root.slots = prev.root.slots /\ root.stats = prev.root.stats
       /\ (root.child = NoChild) = (prev.root.child = NoChild)
       /\ root.child # NoChild =>
            /\ root.child # prev.root.child
            /\ heap[root.child].scroll = prev.scroll
            /\ heap[root.child].p_goal = prev.p_goal
            /\ heap[root.child].exp_cost = prev.exp_cost

\* The second call is over: the root held a child of three outcomes after the
\* first call and holds another object, for the second of two scrolls, now.
C12Witness ==
  /\ Done /\ prev.set
  /\ prev.root.child # NoChild /\ root.child # NoChild
  /\ prev.scroll = 2 /\ prev.p_goal > 0 /\ prev.p_goal < One
  /\ Len(heap[root.child].outcomes) = 3

\* ---------------------------------------------------------------------- C13
\* An item state without its child.
Bare(o) == [kind |-> o.kind, slots |-> o.slots, stats |-> o.stats]

\* The outcomes the scroll sc has at a node with these slots and stats, in
\* order: success, failure, boom.
ExpectedOutcomes(slots, stats, sc) ==
  (IF sc.p_suc > 0
   THEN <<Bare(NewExists(slots - 1, [k \in 1..Len(stats) |-> stats[k] + sc.stats[k]]))>>
   ELSE <<>>)
  \o (IF sc.p_suc < One THEN <<Bare(NewExists(slots - 1, stats))>> ELSE <<>>)
  \o (IF sc.dark /\ sc.p_suc < One THEN <<Bare(NewBoomed)>> ELSE <<>>)

\* The branch probability of the k-th outcome of a list of that shape.
ShapeWeight(sc, outs, k) ==
  IF outs[k].kind = "Boomed" THEN (One - sc.p_suc) \div 2
  ELSE IF k = 1 /\ sc.p_suc > 0 THEN sc.p_suc
  ELSE IF sc.dark THEN (One - sc.p_suc) \div 2 ELSE One - sc.p_suc

RECURSIVE ShapeWeightSum(_, _, _)
ShapeWeightSum(sc, outs, k) ==
  IF k = 0 THEN 0 ELSE ShapeWeightSum(sc, outs, k - 1) + ShapeWeight(sc, outs, k)

WellShaped(slots, stats, su) ==
  LET sc == scrolls[su.scroll]
      outs == su.outcomes
  IN /\ [k \in 1..Len(outs) |-> Bare(outs[k])] = ExpectedOutcomes(slots, stats, sc)
     /\ ShapeWeightSum(sc, outs, Len(outs)) = One
     /\ \A k \in 1..Len(outs) :
          outs[k].kind = "Boomed" =>
            (k > 1 /\ Bare(outs[k - 1]) = Bare(NewExists(slots - 1, stats)))

\* C13: every ScrollUse retained as a child (the running best of a node being
\* evaluated, the child a call returns with, every node of the finished tree)
\* or stored in the cache has as outcomes exactly, in order, the success state
\* iff p_suc > 0, the failure state iff p_suc < 1, Boomed iff dark and
\* p_suc < 1; the branch probabilities sum to 1 and Boomed only ever follows
\* the failure state.
C13Theorem ==
  /\ \A f \in LoopFrames :
       f.st.child # NoChild => WellShaped(f.st.slots, f.st.stats, heap[f.st.child])
  /\ (ReturnedNonTerminal /\ ret.of.child # NoChild) =>
       WellShaped(ret.of.slots, ret.of.stats, heap[ret.of.child])
  /\ Done =>
       /\ \A key \in DOMAIN cache : WellShaped(key[1], key[2], heap[cache[key]])
       /\ \A n \in RetainedChoices : WellShaped(n.slots, n.stats, heap[n.child])

\* The cache holds a scroll use with all three outcomes, and a node being
\* evaluated keeps a child with the failure outcome and Boomed but no success
\* outcome.
C13Witness ==
  /\ \E id \in Range(cache) : Len(heap[id].outcomes) = 3
  /\ \E f \in LoopFrames :
       /\ f.st.child # NoChild
       /\ Len(heap[f.st.child].outcomes) = 2
       /\ heap[f.st.child].outcomes[2].kind = "Boomed"

\* ---------------------------------------------------------------------- C14
\* Stats::partial_cmp and Stats::eq on their own: the operands are any two
\* stat vectors of at most MaxLen components, each at most MaxStat.
StatVectors == UNION { [1..n -> 0..MaxStat] : n \in 0..MaxLen }

InitCmp ==
  /\ \E s \in StatVectors, t \in StatVectors :
       cmp = [s |-> s, t |-> t, called |-> FALSE, ord |-> "None", eq |-> FALSE]
  /\ root = NewExists(0, <<>>)
  /\ scrolls = << >>
  /\ goal = << >>
  /\ master = NoMaster
  /\ cache = << >>
  /\ heap = << >>
  /\ next_id = StaleId + 1
  /\ stack = << >>
  /\ ret = NoRet
  /\ phase = "start"
  /\ prev = NoPrev

CallPartialCmp ==
  /\ ~cmp.called
  /\ cmp' = [cmp EXCEPT !.called = TRUE,
                        !.ord = PartialCmp(cmp.s, cmp.t),
                        !.eq = Eq(cmp.s, cmp.t)]
  /\ UNCHANGED <<root, scrolls, goal, master, cache, heap, next_id, stack, ret, phase, prev>>

NextCmp == CallPartialCmp

SpecCmp == InitCmp /\ [][NextCmp]_vars

\* The product order on two vectors of one length.
ProductOrder(s, t) ==
  LET idx == 1..Len(s)
      allLe == \A k \in idx : s[k] <= t[k]
      allGe == \A k \in idx : s[k] >= t[k]
  IN IF allLe /\ allGe THEN "Equal"
     ELSE IF allLe THEN "Less"
     ELSE IF allGe THEN "Greater"
     ELSE "None"

\* C14: for two stat vectors of equal length L >= 0 partial_cmp is the
\* product order (Equal iff all components are equal, which is exactly when
\* s == t; Less iff all <= and one <; Greater iff all >= and one >; None
\* otherwise), and for vectors of different lengths it is None.
C14Claim ==
  cmp.called =>
    IF Len(cmp.s) # Len(cmp.t) THEN cmp.ord = "None"
    ELSE /\ cmp.ord = ProductOrder(cmp.s, cmp.t)
         /\ (cmp.ord = "Equal") = cmp.eq

\* The same for L >= 1 only.
C14NonEmpty ==
  (cmp.called /\ Len(cmp.s) > 0) => C14Claim

\* ---------------------------------------------------------------------- C15
\* main.rs: the evaluator without a cache, on stat arrays that are implicitly
\* padded with zeroes.
MainGet(s, k) == IF k <= Len(s) THEN s[k] ELSE 0

MainLonger(s, t) == IF Len(s) >= Len(t) THEN Len(s) ELSE Len(t)

MainPlus(s, t) ==
  [k \in 1..MainLonger(s, t) |-> (MainGet(s, k) + MainGet(t, k)) % U16Mod]

RECURSIVE MainCmpFold(_, _, _, _)
MainCmpFold(longer, shorter, k, partial_ordering) ==
  IF k > Len(longer) THEN partial_ordering
  ELSE LET stat_cmp == Cmp(longer[k], MainGet(shorter, k)) IN
       CASE partial_ordering = "None" -> MainCmpFold(longer, shorter, k + 1, stat_cmp)
         [] partial_ordering = "Less" ->
              IF stat_cmp = "Greater" THEN "None"
              ELSE MainCmpFold(longer, shorter, k + 1, partial_ordering)
         [] partial_ordering = "Equal" ->
              MainCmpFold(longer, shorter, k + 1,
                          IF stat_cmp # "Equal" THEN stat_cmp ELSE partial_ordering)
         [] partial_ordering = "Greater" ->
              IF stat_cmp = "Less" THEN "None"
              ELSE MainCmpFold(longer, shorter, k + 1, partial_ordering)

MainPartialCmp(s, t) ==
  IF Len(s) >= Len(t) THEN MainCmpFold(s, t, 1, "None")
  ELSE LET o == MainCmpFold(t, s, 1, "None") IN
       IF o = "Less" THEN "Greater" ELSE IF o = "Greater" THEN "Less" ELSE o

MainLt(s, t) == MainPartialCmp(s, t) = "Less"

MainGe(s, t) == MainPartialCmp(s, t) \in {"Greater", "Equal"}

\* No child: main.rs dfs_p returns (0.0, 0.0) for it.
MainNone == [scroll |-> 0, p_goal |-> 0, exp_cost |-> 0]

RECURSIVE MainDfsP(_, _)
RECURSIVE MainLoop(_, _, _, _)

\* One iteration of the loop of main.rs dfs_p: the scroll_use made for scroll
\* number i, or MainNone when a pruning check skips it.
MainScrollUse(slots, stats, i) ==
  LET scroll == scrolls[i]
      ms == MasterScroll(scrolls)
      slots_m1 == slots - 1
      outcome_suc_stats == MainPlus(stats, scroll.stats)
      suc_pruned == /\ scroll.p_suc > 0
                    /\ MainLt(MainPlus(outcome_suc_stats, Mul(ms.stats, slots_m1)), goal)
      fail_pruned == MainLt(MainPlus(stats, Mul(ms.stats, slots_m1)), goal)
      p_fail == IF scroll.dark THEN FHalf(One - scroll.p_suc) ELSE One - scroll.p_suc
  IN IF suc_pruned \/ fail_pruned THEN MainNone
     ELSE LET suc == IF scroll.p_suc > 0 THEN MainDfsP(slots_m1, outcome_suc_stats)
                     ELSE MainNone
              fail == IF scroll.p_suc < One THEN MainDfsP(slots_m1, stats) ELSE MainNone
          IN [scroll |-> i,
              p_goal |-> FMul(scroll.p_suc, suc.p_goal) + FMul(p_fail, fail.p_goal),
              exp_cost |-> scroll.cost + FMul(scroll.p_suc, suc.exp_cost)
                             + FMul(p_fail, fail.exp_cost)]

MainLoop(slots, stats, i, child) ==
  IF i > Len(scrolls) THEN child
  ELSE LET scroll_use == MainScrollUse(slots, stats, i)
           replace == \/ child.scroll = 0
                      \/ scroll_use.p_goal > child.p_goal
                      \/ /\ scroll_use.p_goal = child.p_goal
                         /\ scroll_use.exp_cost < child.exp_cost
       IN MainLoop(slots, stats, i + 1,
                   IF scroll_use.scroll # 0 /\ replace THEN scroll_use ELSE child)

MainDfsP(slots, stats) ==
  IF slots = 0
  THEN [scroll |-> 0, p_goal |-> IF MainGe(stats, goal) THEN One ELSE 0, exp_cost |-> 0]
  ELSE MainLoop(slots, stats, 1, MainNone)

\* The scroll use su is what main.rs dfs_p chooses for this state.
SameAsMain(slots, stats, su) ==
  LET m == MainDfsP(slots, stats)
  IN su.scroll = m.scroll /\ su.p_goal = m.p_goal /\ su.exp_cost = m.exp_cost

\* C15: after solve_p, at every node of the retained tree the chosen scroll,
\* p_goal and exp_cost are those the evaluator without a cache (main.rs dfs_p)
\* computes for the node's state, a node without child being one for which it
\* chooses nothing; and every value the cache stores under (slots, stats) is
\* what that evaluator computes for (slots, stats).
C15Theorem ==
  Done =>
    /\ \A key \in DOMAIN cache : SameAsMain(key[1], key[2], heap[cache[key]])
    /\ \A n \in RetainedStates :
         (n.kind = "Exists" /\ n.slots > 0) =>
           LET key == <<n.slots, n.stats>> IN
           IF n.child = NoChild THEN MainDfsP(n.slots, n.stats).scroll = 0
           ELSE \/ (key \in DOMAIN cache /\ cache[key] = n.child)
                \/ SameAsMain(n.slots, n.stats, heap[n.child])

\* The handles the outcomes of the ScrollUse id hold.
ChildrenOf(id) ==
  { heap[id].outcomes[k].child : k \in 1..Len(heap[id].outcomes) } \ {NoChild}

\* A finished run in which a cache hit gave one ScrollUse to the outcomes of
\* two different scroll uses of the retained tree, and the root's choice
\* has a goal probability strictly between 0 and 1.
C15Witness ==
  /\ Done /\ root.child # NoChild
  /\ heap[root.child].p_goal > 0 /\ heap[root.child].p_goal < One
  /\ \E a, b \in IdsFrom(root) :
       a # b /\ ChildrenOf(a) \cap ChildrenOf(b) # {}

\* ---------------------------------------------------------------------- C16
\* The largest bonus any scroll of the catalog grants to stat k.
MaxBonus(k) ==
  LET bonuses == { scrolls[j].stats[k] : j \in 1..Len(scrolls) }
  IN CHOOSE b \in bonuses : \A c \in bonuses : c <= b

\* v < goal in the product order, stated componentwise.
BelowGoal(v) ==
  /\ \A k \in 1..Len(goal) : v[k] <= goal[k]
  /\ \E k \in 1..Len(goal) : v[k] < goal[k]

\* Master-scroll pruning skips scroll number j at a node with these slots and
\* stats: at the success branch, or at the failure branch.
PrunedScroll(slots, stats, j) ==
  \/ /\ scrolls[j].p_suc > 0
     /\ BelowGoal([k \in 1..Len(goal) |->
                     stats[k] + scrolls[j].stats[k] + MaxBonus(k) * (slots - 1)])
  \/ BelowGoal([k \in 1..Len(goal) |-> stats[k] + MaxBonus(k) * (slots - 1)])

AllPruned(slots, stats) == \A j \in 1..Len(scrolls) : PrunedScroll(slots, stats, j)

\* C16: when dfs_p has returned from an Exists state with slots > 0, child is
\* None iff master-scroll pruning skipped every scroll of the catalog; then
\* (0, 0) was returned and the cache has no entry for (slots, stats);
\* otherwise the cache maps (slots, stats) to that very child and
\* (child.p_goal, child.exp_cost) was returned.
C16Theorem ==
  ReturnedNonTerminal =>
    LET st == ret.of
        key == <<st.slots, st.stats>>
    IN /\ (st.child = NoChild) = AllPruned(st.slots, st.stats)
       /\ IF st.child = NoChild
          THEN ret.p = 0 /\ ret.cost = 0 /\ key \notin DOMAIN cache
          ELSE /\ key \in DOMAIN cache /\ cache[key] = st.child
               /\ ret.p = heap[st.child].p_goal
               /\ ret.cost = heap[st.child].exp_cost

\* A call below the root returned from a state with slots > 0 where every
\* scroll was pruned, while the cache already held entries of other states.
C16Witness ==
  /\ ReturnedNonTerminal /\ Len(stack) > 0
  /\ ret.of.child = NoChild /\ ret.p = 0
  /\ AllPruned(ret.of.slots, ret.of.stats)
  /\ cache # << >>

\* ---------------------------------------------------------------------- C17
\* The evaluation of the ScrollUse id of heap h is complete under cache c: every outcome has been
\* evaluated, i.e. an outcome with slots left either holds a child, itself
\* complete and the one the cache stores for the outcome's state, or is a
\* state where every scroll is pruned.
RECURSIVE Evaluated(_, _, _)
Evaluated(h, c, id) ==
  /\ id \in DOMAIN h
  /\ \A k \in 1..Len(h[id].outcomes) :
       LET o == h[id].outcomes[k] IN
       (o.kind = "Exists" /\ o.slots > 0) =>
         IF o.child = NoChild THEN AllPruned(o.slots, o.stats)
         ELSE /\ <<o.slots, o.stats>> \in DOMAIN c
              /\ c[<<o.slots, o.stats>>] = o.child
              /\ Evaluated(h, c, o.child)

\* dfs_p is entered on a state whose key the cache holds.
EntersHit ==
  /\ Running /\ Top.pc = "entry" /\ Top.st.kind = "Exists"
  /\ <<Top.st.slots, Top.st.stats>> \in DOMAIN cache

\* C17: during one run of solve_p no cache entry is ever removed, overwritten
\* or mutated; a key is inserted only when absent, at the end of the loop
\* of the one call that evaluates it, never with slots == 0, with a value
\* whose evaluation is complete; no call in progress is evaluating a state
\* whose key the cache holds or holds a handle to a cached value as its
\* running best; a cache hit hands out the cached value, complete before the
\* hit.
C17Theorem ==
  [][/\ \A key \in DOMAIN cache :
          /\ key \in DOMAIN cache' /\ cache'[key] = cache[key]
          /\ cache[key] \in DOMAIN heap' /\ heap'[cache[key]] = heap[cache[key]]
     /\ \A key \in DOMAIN cache' \ DOMAIN cache :
          /\ key[1] > 0
          /\ cache'[key] \notin Range(cache)
          /\ Top.pc = "loop" /\ key = <<Top.st.slots, Top.st.stats>>
          /\ Evaluated(heap', cache', cache'[key])
     /\ \A f \in LoopFrames :
          /\ <<f.st.slots, f.st.stats>> \notin DOMAIN cache
          /\ f.st.child \notin Range(cache)
     /\ EntersHit =>
          /\ Evaluated(heap, cache, cache[<<Top.st.slots, Top.st.stats>>])
          /\ ret'.set
          /\ ret'.of.child = cache[<<Top.st.slots, Top.st.stats>>]
          /\ cache' = cache /\ heap' = heap]_vars

\* The places that hold a handle to the ScrollUse id: outcomes of scroll uses
\* on the heap and of scroll uses under construction.
HeapHolders(id) ==
  { x \in (DOMAIN heap) \X (1..3) :
      /\ x[2] <= Len(heap[x[1]].outcomes)
      /\ heap[x[1]].outcomes[x[2]].child = id }

FrameHolders(id) ==
  { x \in (1..Len(stack)) \X (1..3) :
      /\ x[2] <= Len(stack[x[1]].su.outcomes)
      /\ stack[x[1]].su.outcomes[x[2]].child = id }

\* A cache hit has just handed out a cached value that another scroll use
\* already held, three keys being cached.
C17Witness ==
  /\ ret.set /\ ret.of.kind = "Exists" /\ ret.of.child # NoChild
  /\ ret.of.child \in Range(cache)
  /\ Cardinality(HeapHolders(ret.of.child)) + Cardinality(FrameHolders(ret.of.child)) >= 2
  /\ Cardinality(DOMAIN cache) >= 3

\* ---------------------------------------------------------------------- C18
\* dfs_p runs to completion: a call that can take its next step takes it.
FairSpec == Spec /\ WF_vars(Next)

\* Every call below the root's is on Boomed or on a state with exactly one
\* slot fewer than its caller's, and there are at most root.slots of them.
NestedCalls ==
  /\ Len(stack) > 0 => stack[1].st.slots = root.slots
  /\ Len(stack) > 0 => Len(stack) - 1 <= root.slots
  /\ \A k \in 2..Len(stack) :
       \/ stack[k].st.kind = "Boomed"
       \/ /\ stack[k].st.kind = "Exists"
          /\ stack[k - 1].st.kind = "Exists"
          /\ stack[k].st.slots = stack[k - 1].st.slots - 1

\* C18: solve_p terminates for every root and catalog; every recursive call
\* of dfs_p is on a state with one slot fewer than its caller's (or on
\* Boomed), so the nesting below the root's call never exceeds root.slots.
C18Theorem == []NestedCalls /\ <>Done

\* The nesting is as deep as the root's slots allow, with the innermost call
\* on Boomed.
C18Witness ==
  /\ Len(stack) > 1
  /\ Len(stack) - 1 = root.slots
  /\ root.slots = MaxSlots
  /\ Top.st.kind = "Boomed"

\* ---------------------------------------------------------------------- C19
\* Roots whose first stat is so close to the top of u16 that MaxSlots bonuses
\* of 1 just fit, or just do not.
HighStat == U16Mod - 1 - MaxSlots

HighRootStats == { <<HighStat, 0>>, <<HighStat + 1, 0>> }

HighGoals == { <<0, 0>>, <<HighStat + 2, 0>>, <<U16Mod - 1, 1>> }

InitHigh ==
  /\ \E slots \in 0..MaxSlots, stats \in HighRootStats :
       root = NewExists(slots, stats)
  /\ heap = << >>
  /\ scrolls \in Catalogs
  /\ goal \in HighGoals
  /\ master = NoMaster
  /\ cache = << >>
  /\ next_id = StaleId + 1
  /\ stack = << >>
  /\ ret = NoRet
  /\ phase = "start"
  /\ prev = NoPrev
  /\ cmp = NoCmp

SpecHigh == InitHigh /\ [][Next]_vars

\* root.stats[i] + root.slots * m[i] <= 65535 for every stat i.
RootFits ==
  \A k \in 1..Len(root.stats) : root.stats[k] + root.slots * MaxBonus(k) <= U16Mod - 1

\* The u16 operations the innermost call performs from where it stands, on
\* the values it holds, computed without wrapping: stats + scroll.stats,
\* master * slots_m1 and their sums.
NoOverflowHere ==
  LET stats == Top.st.stats
      bound == [k \in 1..Len(master.stats) |-> master.stats[k] * SlotsM1]
      fits(v) == v <= U16Mod - 1
  IN /\ (InLoop /\ Cur.p_suc > 0) =>
          \A k \in 1..Len(stats) :
            /\ fits(stats[k] + Cur.stats[k])
            /\ fits(bound[k])
            /\ fits(stats[k] + Cur.stats[k] + bound[k])
     /\ AtFailCheck =>
          \A k \in 1..Len(stats) : fits(bound[k]) /\ fits(stats[k] + bound[k])

\* C19: if root.stats[i] + root.slots * m[i] <= 65535 for every stat i, m[i]
\* being the largest bonus of the catalog for stat i, no Stats::plus and no
\* Stats * u16 performed during solve_p overflows, in the outcome stats and
\* in both master-scroll bounds.
C19Theorem == (Running /\ RootFits) => NoOverflowHere

\* The root fits exactly, and a call has reached a state whose first stat is
\* 65535.
C19Witness ==
  /\ Running /\ RootFits
  /\ root.stats[1] + root.slots * MaxBonus(1) = U16Mod - 1
  /\ Top.st.kind = "Exists" /\ Top.st.stats[1] = U16Mod - 1

\* Without the premise an addition does overflow.
C19Overflows == Running => NoOverflowHere

====
